---- MODULE Spec2Model ----
(***************************************************************************)
(* playwright-bdd: the Cucumber messages builder of the reporter           *)
(* (src/reporter/cucumber/messagesBuilder/Builder.ts), the test files      *)
(* generator (src/gen/index.ts) and the BDD config (src/config/index.ts),  *)
(* as state machines.                                                      *)
(***************************************************************************)
EXTENDS Integers, Sequences, FiniteSets, TLC

(***************************************************************************)
(* Bounds of the model.                                                    *)
(***************************************************************************)
\* number of onTestEnd events the host delivers in one run
MaxEvents == 2
\* highest retry ordinal of an attempt
MaxRetry == 1
\* number of buildMessages() calls (one per cucumber reporter)
MaxCalls == 2

VARIABLES
    \* ---- host (Playwright) side of the reporter
    delivered,             \* the onTestEnd events delivered so far, in arrival order
    onEndCalled,           \* the host has called onEnd
    \* ---- MessagesBuilder fields
    report,                \* this.report
    fullResult,            \* this.fullResult
    testCaseRuns,          \* this.testCaseRuns
    testCases,             \* this.testCases (AutofillMap, insertion order)
    hooks,                 \* this.hooks (AutofillMap, insertion order)
    gherkinDocuments,      \* this.gherkinDocuments (uris of the loaded documents)
    fullResultTiming,      \* this.fullResultTiming
    onEndResolved,         \* this.onEndPromise is resolved
    buildMessagesPromise,  \* this.buildMessagesPromise (0: undefined, k: the k-th doBuildMessages)
    doBuilds,              \* position of every started doBuildMessages()
    calls,                 \* the promise every buildMessages() call returned
    collected,             \* envelopes received by this.eventDataCollectorEmitter
    emitted,               \* envelopes received by the broadcaster of the last emitMessages()
    \* ---- TestFilesGenerator: its input, its fields, the file system
    genInput,              \* config, feature files and step registry of the pass
    genPc,                 \* position of generate()
    featuresPc,            \* position of loadFeatures()
    stepsPc,               \* position of loadSteps()
    runConfiguration,      \* this.runConfiguration is set
    featuresLoader,        \* this.featuresLoader: documents and parseErrors
    supportCodeLibrary,    \* this.supportCodeLibrary
    files,                 \* this.files
    testFiles,             \* clearOutputDir: the files fg(pattern) found, not yet removed
    disk,                  \* the files under config.outputDir
    logged,                \* what the logger and exit() have printed
    \* ---- BDD config
    processEnv,            \* process.env of every process: TEST_WORKER_INDEX, stored configs
    returned               \* what every defineBddConfig() call returned, in order

builderVars ==
    << delivered, onEndCalled, report, fullResult, testCaseRuns, testCases, hooks,
       gherkinDocuments, fullResultTiming, onEndResolved, buildMessagesPromise,
       doBuilds, calls, collected, emitted >>

genVars ==
    << genInput, genPc, featuresPc, stepsPc, runConfiguration, featuresLoader,
       supportCodeLibrary, files, testFiles, disk, logged >>

configVars == << processEnv, returned >>

vars == << builderVars, genVars, configVars >>

(***************************************************************************)
(* The host's tests.  A pw.TestCase has an id, a project (with or without  *)
(* a BDD config), an expected status, the feature file it was generated    *)
(* from and the hooks it runs.                                             *)
(***************************************************************************)
TestIds == {"t1", "t2", "t3", "t4"}

\* hasBddConfig(test.parent.project()?.testDir)
hasBddConfig(t) == t # "t4"

\* test.expectedStatus
expectedStatus(t) == IF t = "t3" THEN "skipped" ELSE "passed"

\* the feature uri of the bddData attachment of a test
FeatureUri(t) == IF t = "t2" THEN "b.feature" ELSE "a.feature"

\* internal ids of the hooks a test runs, in execution order
HooksOfTest(t) == IF t = "t2" THEN << "h1", "h2" >> ELSE << "h1" >>

\* pw.TestResult of one attempt: status and timing
TestResults ==
    { [status |-> "failed", startTime |-> 1000, duration |-> 500],
      [status |-> "passed", startTime |-> 999, duration |-> 2] }

\* a field that is not there ('startTime' in fullResult is false)
Absent == -1

\* pw.FullResult given to onEnd: startTime and duration exist since pw 1.37
FullResults ==
    { [status |-> s, startTime |-> tm[1], duration |-> tm[2]] :
        s \in {"passed", "failed"},
        tm \in { << Absent, Absent >>, << 1200, 300 >>, << 1200, Absent >> } }
    \cup { [status |-> "interrupted", startTime |-> Absent, duration |-> Absent] }

\* values of new Date() at build time
Clock == {3000, 3001}

(***************************************************************************)
(* Envelopes.                                                              *)
(***************************************************************************)
Null == [kind |-> "null"]

NoTimestamp == [seconds |-> Absent, nanos |-> Absent]

Envelope(kind, ref, attempt, timestamp, success) ==
    [kind |-> kind, ref |-> ref, attempt |-> attempt, timestamp |-> timestamp,
     success |-> success]

\* timing.ts toCucumberTimestamp: milliseconds to {seconds, nanos}
toCucumberTimestamp(ms) ==
    [seconds |-> ms \div 1000, nanos |-> (ms % 1000) * 1000000]

\* the empty report of the field initializer
EmptyReport ==
    [meta |-> Null, source |-> << >>, gherkinDocument |-> << >>, pickle |-> << >>,
     stepDefinition |-> << >>, hook |-> << >>, testRunStarted |-> Null,
     testCase |-> << >>, testCaseRuns |-> << >>, testRunFinished |-> Null]


(***************************************************************************)
(* Helpers on sequences.                                                   *)
(***************************************************************************)
\* the elements of a sequence
Range(seq) == { seq[i] : i \in DOMAIN seq }

(***************************************************************************)
(* onTestEnd                                                               *)
(***************************************************************************)
\* the acceptance test of onTestEnd, mutated: the expected-skipped check is lost
AcceptsTest_NoSkipCheck(t) == hasBddConfig(t)

\* the two early returns of onTestEnd: non-bdd project, expected-skipped test
AcceptsTest(t) ==
    /\ hasBddConfig(t)
    /\ expectedStatus(t) # "skipped"

\* new TestCaseRun(test, result, hooks): the attempt with its data, no test case yet
NewTestCaseRun(t, retry, result) ==
    [id |-> t, retry |-> retry, status |-> result.status,
     startTime |-> result.startTime, duration |-> result.duration, testCase |-> ""]

\* the TestCaseRun constructor registers the hooks of the attempt: hooks.getOrCreate
RECURSIVE RegisterHooks(_, _)
RegisterHooks(hs, ids) ==
    IF ids = << >> THEN hs
    ELSE RegisterHooks(IF Head(ids) \in Range(hs) THEN hs ELSE Append(hs, Head(ids)),
                       Tail(ids))

\* this.testCaseRuns.push(testCaseRun), mutated: unshift
UnshiftRun(runs, run) == << run >> \o runs

\* this.testCaseRuns.push(testCaseRun)
PushRun(runs, run) == Append(runs, run)

\* The host delivers the end of attempt `retry` of test t, each attempt once and
\* all of them before onEnd; workers deliver them in any order.
onTestEnd(t, retry, result) ==
    /\ ~onEndCalled
    /\ Len(delivered) < MaxEvents
    /\ [id |-> t, retry |-> retry] \notin Range(delivered)
    /\ delivered' = Append(delivered, [id |-> t, retry |-> retry])
    /\ IF AcceptsTest(t)
       THEN /\ testCaseRuns' = PushRun(testCaseRuns, NewTestCaseRun(t, retry, result))
            /\ hooks' = RegisterHooks(hooks, HooksOfTest(t))
       ELSE UNCHANGED << testCaseRuns, hooks >>
    /\ UNCHANGED << configVars, genVars, onEndCalled, report, fullResult, testCases, gherkinDocuments,
                    fullResultTiming, onEndResolved, buildMessagesPromise, doBuilds,
                    calls, collected, emitted >>

(***************************************************************************)
(* onEnd                                                                   *)
(***************************************************************************)
\* onEnd, mutated: onEndPromiseResolve() is not called
onEndPromiseResolve_NotCalled == FALSE

\* onEnd: `this.onEndPromiseResolve()` resolves onEndPromise
onEndPromiseResolve == TRUE

onEnd(fr) ==
    /\ ~onEndCalled
    /\ onEndCalled' = TRUE
    /\ fullResult' = fr
    /\ onEndResolved' = onEndPromiseResolve
    /\ UNCHANGED << configVars, genVars, delivered, report, testCaseRuns, testCases, hooks, gherkinDocuments,
                    fullResultTiming, buildMessagesPromise, doBuilds, calls, collected,
                    emitted >>

(***************************************************************************)
(* buildMessages                                                           *)
(***************************************************************************)
\* if (!this.buildMessagesPromise), mutated: the promise is not looked at
NeedsBuild_Always(promise) == TRUE

\* if (!this.buildMessagesPromise)
NeedsBuild(promise) == promise = 0

\* One call of buildMessages(): doBuildMessages() starts when no promise is stored
\* and runs to its first await; the call returns the stored promise.
buildMessages ==
    /\ Len(calls) < MaxCalls
    /\ IF NeedsBuild(buildMessagesPromise)
       THEN /\ doBuilds' = Append(doBuilds, "awaitOnEnd")
            /\ buildMessagesPromise' = Len(doBuilds) + 1
       ELSE UNCHANGED << doBuilds, buildMessagesPromise >>
    /\ calls' = Append(calls, buildMessagesPromise')
    /\ UNCHANGED << configVars, genVars, delivered, onEndCalled, report, fullResult, testCaseRuns, testCases,
                    hooks, gherkinDocuments, fullResultTiming, onEndResolved, collected,
                    emitted >>


(***************************************************************************)
(* doBuildMessages: the steps after the two awaits                         *)
(***************************************************************************)
\* gherkinDocuments.load(testCaseRuns): the documents of the runs' feature uris,
\* each loaded once, in the order of the runs
RECURSIVE LoadDocuments(_, _)
LoadDocuments(docs, runs) ==
    IF runs = << >> THEN docs
    ELSE LET uri == FeatureUri(Head(runs).id)
         IN LoadDocuments(IF uri \in Range(docs) THEN docs ELSE Append(docs, uri),
                          Tail(runs))

\* testCases.getOrCreate(testId, ...), mutated: a new entry on every call
getOrCreate_AlwaysCreate(tcs, testId) == Append(tcs, [id |-> testId, runs |-> << >>])

\* testCases.getOrCreate(testId, () => new TestCase(testId, ...))
getOrCreate(tcs, testId) ==
    IF \E i \in DOMAIN tcs : tcs[i].id = testId
    THEN tcs
    ELSE Append(tcs, [id |-> testId, runs |-> << >>])

\* the entry getOrCreate returned: the one of testId that was inserted last
EntryOf(tcs, testId) ==
    CHOOSE i \in DOMAIN tcs :
        /\ tcs[i].id = testId
        /\ \A j \in DOMAIN tcs : tcs[j].id = testId => j <= i

\* testCase.addRun(testCaseRun): the run (its index in testCaseRuns) joins the case
addRun(tcs, k, runIndex) ==
    [tcs EXCEPT ![k].runs = Append(@, runIndex)]

\* createTestCases, mutated: testCase.addRun(testCaseRun) is not called
RECURSIVE createTestCases_NoAddRun(_, _, _)
createTestCases_NoAddRun(tcs, runs, i) ==
    IF i > Len(runs) THEN [testCases |-> tcs, testCaseRuns |-> runs]
    ELSE LET testId == runs[i].id
             tcs1 == getOrCreate(tcs, testId)
             k == EntryOf(tcs1, testId)
         IN createTestCases_NoAddRun(tcs1, [runs EXCEPT ![i].testCase = tcs1[k].id],
                                     i + 1)

\* createTestCases: testCaseRuns.forEach from run i on; the result is the pair
\* of the test cases and the runs with their testCase set
RECURSIVE createTestCases(_, _, _)
createTestCases(tcs, runs, i) ==
    IF i > Len(runs) THEN [testCases |-> tcs, testCaseRuns |-> runs]
    ELSE LET testId == runs[i].id
             tcs1 == getOrCreate(tcs, testId)
             k == EntryOf(tcs1, testId)
         IN createTestCases(addRun(tcs1, k, i),
                            [runs EXCEPT ![i].testCase = tcs1[k].id],
                            i + 1)

\* addMeta
addMeta(rep) ==
    [rep EXCEPT !.meta = Envelope("meta", "", Absent, NoTimestamp, FALSE)]

\* addSourcesAndDocuments
addSourcesAndDocuments(rep, docs) ==
    LET Source(u) == Envelope("source", u, Absent, NoTimestamp, FALSE)
        Document(u) == Envelope("gherkinDocument", u, Absent, NoTimestamp, FALSE)
    IN [rep EXCEPT !.source = [i \in DOMAIN docs |-> Source(docs[i])],
                   !.gherkinDocument = [i \in DOMAIN docs |-> Document(docs[i])]]

\* addPickles: new Pickles().buildMessages(testCases), one pickle per test case
addPickles(rep, tcs) ==
    LET Pickle(tc) == Envelope("pickle", tc.id, Absent, NoTimestamp, FALSE)
    IN [rep EXCEPT !.pickle = [i \in DOMAIN tcs |-> Pickle(tcs[i])]]

\* addHooks: one push per hook
addHooks(rep, hs) ==
    LET Hook(h) == Envelope("hook", h, Absent, NoTimestamp, FALSE)
    IN [rep EXCEPT !.hook = @ \o [i \in DOMAIN hs |-> Hook(hs[i])]]

\* addTestCases: one push per test case
addTestCases(rep, tcs) ==
    LET TestCase(tc) == Envelope("testCase", tc.id, Absent, NoTimestamp, FALSE)
    IN [rep EXCEPT !.testCase = @ \o [i \in DOMAIN tcs |-> TestCase(tcs[i])]]

\* testCaseRun.buildMessages(): testCaseStarted ... testCaseFinished of one attempt
RunMessages(run) ==
    << Envelope("testCaseStarted", run.id, run.retry,
                toCucumberTimestamp(run.startTime), FALSE),
       Envelope("testCaseFinished", run.id, run.retry,
                toCucumberTimestamp(run.startTime + run.duration), FALSE) >>

\* addTestCaseRuns: the messages of every run are pushed, run by run
RECURSIVE addTestCaseRuns(_, _)
addTestCaseRuns(rep, runs) ==
    IF runs = << >> THEN rep
    ELSE addTestCaseRuns([rep EXCEPT !.testCaseRuns = @ \o RunMessages(Head(runs))],
                         Tail(runs))


(***************************************************************************)
(* Timing of the run                                                       *)
(***************************************************************************)
\* this.fullResultTiming is undefined
NoTiming == [startTime |-> Absent, duration |-> Absent]

\* this.fullResult before onEnd
NoFullResult == [status |-> "", startTime |-> Absent, duration |-> Absent]

Min(S) == CHOOSE x \in S : \A y \in S : x <= y
Max(S) == CHOOSE x \in S : \A y \in S : y <= x

\* timing.ts calcMinMaxByArray: the earliest start and the latest end of the items;
\* the current time and no duration when there is no item
calcMinMaxByArray(items, now) ==
    IF items = << >> THEN [startTime |-> now, duration |-> 0]
    ELSE LET startTime == Min({ items[i].startTime : i \in DOMAIN items })
             endTime == Max({ items[i].startTime + items[i].duration : i \in DOMAIN items })
         IN [startTime |-> startTime, duration |-> endTime - startTime]

\* getFullResultTiming, mutated: the host's startTime and duration are not used
getFullResultTiming_NoHost(memo, fr, runs, now) ==
    IF memo # NoTiming THEN memo ELSE calcMinMaxByArray(runs, now)

\* getFullResultTiming: the memoized timing, else the host's, else the computed one
getFullResultTiming(memo, fr, runs, now) ==
    IF memo # NoTiming THEN memo
    ELSE IF fr.startTime # Absent /\ fr.duration # Absent
         THEN [startTime |-> fr.startTime, duration |-> fr.duration]
         ELSE calcMinMaxByArray(runs, now)

\* addTestRunStarted, mutated: the envelope is not stored
addTestRunStarted_Lost(rep, timing) == rep

\* addTestRunStarted
addTestRunStarted(rep, timing) ==
    [rep EXCEPT !.testRunStarted =
        Envelope("testRunStarted", "", Absent,
                 toCucumberTimestamp(timing.startTime), FALSE)]

\* success of testRunFinished, mutated: every status but 'failed' counts as success
RunSuccess_NotFailed(fr) == fr.status # "failed"

\* success: this.fullResult.status === 'passed'
RunSuccess(fr) == fr.status = "passed"

\* timestamp of testRunFinished in ms, mutated: the duration alone
FinishedTime_DurationOnly(timing) == timing.duration

\* startTime.getTime() + duration
FinishedTime(timing) == timing.startTime + timing.duration

\* addTestRunFinished
addTestRunFinished(rep, timing, fr) ==
    [rep EXCEPT !.testRunFinished =
        Envelope("testRunFinished", "", Absent,
                 toCucumberTimestamp(FinishedTime(timing)), RunSuccess(fr))]

(***************************************************************************)
(* emitMessages                                                            *)
(***************************************************************************)
\* the report keys, mutated: testRunFinished is declared before the runs
ReportKeys_FinishedEarly ==
    << "meta", "source", "gherkinDocument", "pickle", "stepDefinition", "hook",
       "testRunStarted", "testCase", "testRunFinished", "testCaseRuns" >>

\* Object.values(this.report): the property order of the report object
ReportKeys ==
    << "meta", "source", "gherkinDocument", "pickle", "stepDefinition", "hook",
       "testRunStarted", "testCase", "testCaseRuns", "testRunFinished" >>

\* the messages of one report value: none for null, the array, or the one message
MessagesOf(rep, key) ==
    IF key \in {"meta", "testRunStarted", "testRunFinished"}
    THEN IF rep[key] = Null THEN << >> ELSE << rep[key] >>
    ELSE rep[key]

\* the envelopes emitMessages emits, in order, for the keys given
RECURSIVE EmitFrom(_, _)
EmitFrom(rep, keys) ==
    IF keys = << >> THEN << >>
    ELSE MessagesOf(rep, Head(keys)) \o EmitFrom(rep, Tail(keys))

\* emitMessages(eventBroadcaster): what the broadcaster receives
Emission(rep) == EmitFrom(rep, ReportKeys)

\* A reporter calls emitMessages(eventBroadcaster) with its own broadcaster.
emitMessages ==
    /\ emitted' = Emission(report)
    /\ UNCHANGED << configVars, genVars, delivered, onEndCalled, report, fullResult, testCaseRuns, testCases,
                    hooks, gherkinDocuments, fullResultTiming, onEndResolved,
                    buildMessagesPromise, doBuilds, calls, collected >>


(***************************************************************************)
(* doBuildMessages                                                         *)
(***************************************************************************)
\* doBuildMessages, mutated: onEndPromise is not awaited
onEndPromise_NotAwaited(resolved) == TRUE

\* doBuildMessages: `await this.onEndPromise` returns once onEnd has resolved it
onEndPromise(resolved) == resolved

\* doBuildMessages k resumes from `await this.onEndPromise` and calls
\* loadFeatures(), which suspends it on gherkinDocuments.load(testCaseRuns).
doBuildLoadFeatures(k) ==
    /\ doBuilds[k] = "awaitOnEnd"
    /\ onEndPromise(onEndResolved)
    /\ doBuilds' = [doBuilds EXCEPT ![k] = "loadFeatures"]
    /\ gherkinDocuments' = LoadDocuments(gherkinDocuments, testCaseRuns)
    /\ UNCHANGED << configVars, genVars, delivered, onEndCalled, report, fullResult, testCaseRuns, testCases,
                    hooks, fullResultTiming, onEndResolved, buildMessagesPromise, calls,
                    collected, emitted >>

\* doBuildMessages k resumes from `await this.loadFeatures()` and runs to its end
\* without suspending: createTestCases, the add* steps, buildEventDataCollector.
doBuildAssemble(k) ==
    /\ doBuilds[k] = "loadFeatures"
    /\ \E now \in Clock :
        LET created == createTestCases(testCases, testCaseRuns, 1)
            tcs == created.testCases
            runs == created.testCaseRuns
            r1 == addMeta(report)
            r2 == addSourcesAndDocuments(r1, gherkinDocuments)
            r3 == addPickles(r2, tcs)
            r4 == addHooks(r3, hooks)
            timing1 == getFullResultTiming(fullResultTiming, fullResult, runs, now)
            r5 == addTestRunStarted(r4, timing1)
            r6 == addTestCases(r5, tcs)
            r7 == addTestCaseRuns(r6, runs)
            timing2 == getFullResultTiming(timing1, fullResult, runs, now)
            r8 == addTestRunFinished(r7, timing2, fullResult)
        IN /\ testCases' = tcs
           /\ testCaseRuns' = runs
           /\ fullResultTiming' = timing2
           /\ report' = r8
           /\ collected' = collected \o Emission(r8)
    /\ doBuilds' = [doBuilds EXCEPT ![k] = "done"]
    /\ UNCHANGED << configVars, genVars, delivered, onEndCalled, fullResult, hooks, gherkinDocuments,
                    onEndResolved, buildMessagesPromise, calls, emitted >>

(***************************************************************************)
(* TestFilesGenerator: paths                                               *)
(* A path is the sequence of its segments; an absolute path starts at the  *)
(* file system root.                                                       *)
(***************************************************************************)
\* getPlaywrightConfigDir()
ConfigDir == << "proj" >>

\* path.normalize of a segment sequence: '.' is dropped, '..' drops the parent
RECURSIVE Normalize(_, _)
Normalize(done, rest) ==
    IF rest = << >> THEN done
    ELSE IF Head(rest) = "." THEN Normalize(done, Tail(rest))
    ELSE IF Head(rest) = ".."
         THEN Normalize(IF done = << >> THEN done ELSE SubSeq(done, 1, Len(done) - 1),
                        Tail(rest))
    ELSE Normalize(Append(done, Head(rest)), Tail(rest))

\* path.resolve(from, to) for an absolute `from` and a relative `to`
PathResolve(from, to) == Normalize(<< >>, from \o to)

\* length of the longest common prefix of two paths
RECURSIVE CommonPrefix(_, _)
CommonPrefix(a, b) ==
    IF a = << >> \/ b = << >> \/ Head(a) # Head(b) THEN 0
    ELSE 1 + CommonPrefix(Tail(a), Tail(b))

\* path.relative(from, to) for two absolute paths: one '..' per segment of `from`
\* below the common prefix, then the rest of `to`
PathRelative(from, to) ==
    LET n == CommonPrefix(from, to)
    IN [i \in 1..(Len(from) - n) |-> ".."] \o SubSeq(to, n + 1, Len(to))

\* the segments of the model that start with the two characters '..'
DotDotSegments == { "..", "..shared" }

\* relOutputPath.startsWith('..') on the path as a string
StartsWithDotDot(rel) == rel # << >> /\ rel[1] \in DotDotSegments

\* a file: its path without the suffix, and the suffix
File(path, suffix) == [path |-> path, suffix |-> suffix]

\* getSpecPathByFeaturePath, mutated: the output path keeps the file name only
SpecPath_Basename(config, relFeaturePath) ==
    File(PathResolve(config.outputDir, << relFeaturePath[Len(relFeaturePath)] >>),
         ".spec.js")

\* getSpecPathByFeaturePath: the result when exit() is not called
SpecPath(config, relFeaturePath) ==
    LET absFeaturePath == PathResolve(ConfigDir, relFeaturePath)
        relOutputPath == PathRelative(config.featuresRoot, absFeaturePath)
        absOutputPath == PathResolve(config.outputDir, relOutputPath)
    IN File(absOutputPath, ".spec.js")

\* getSpecPathByFeaturePath: exit() is called, the feature is not underneath
\* featuresRoot
OutsideFeaturesRoot(config, relFeaturePath) ==
    StartsWithDotDot(PathRelative(config.featuresRoot,
                                  PathResolve(ConfigDir, relFeaturePath)))

(***************************************************************************)
(* TestFilesGenerator: the input of a pass                                 *)
(***************************************************************************)
\* number of feature files of a pass
MaxFeatures == 2

\* a pickle of a feature: whether its tags satisfy the tags expression, and how
\* many of its steps have no definition
Pickle(included, undefinedSteps) ==
    [included |-> included, undefinedSteps |-> undefinedSteps]

\* the feature files a pass may find, in the order of the loader
FeatureFiles ==
    << [uri |-> << "features", "a.feature" >>, parseError |-> FALSE,
        pickles |-> << Pickle(TRUE, 0) >>],
       [uri |-> << "features", "bad.feature" >>, parseError |-> TRUE,
        pickles |-> << >>],
       [uri |-> << "features", "sub", "a.feature" >>, parseError |-> FALSE,
        pickles |-> << Pickle(TRUE, 1), Pickle(TRUE, 0) >>],
       [uri |-> << "features", "tagged.feature" >>, parseError |-> FALSE,
        pickles |-> << Pickle(FALSE, 0), Pickle(FALSE, 1) >>],
       [uri |-> << "features", "..shared", "c.feature" >>, parseError |-> FALSE,
        pickles |-> << Pickle(TRUE, 0) >>],
       [uri |-> << "other", "b.feature" >>, parseError |-> FALSE,
        pickles |-> << Pickle(TRUE, 2), Pickle(FALSE, 0) >>],
       [uri |-> << "features", "deep", "a.feature" >>, parseError |-> FALSE,
        pickles |-> << Pickle(TRUE, 0) >>],
       [uri |-> << "features", "bad2.feature" >>, parseError |-> TRUE,
        pickles |-> << >>] >>

\* the BDD configs of a pass
Configs ==
    { [outputDir |-> ConfigDir \o << ".features-gen" >>, featuresRoot |-> root,
       importTestFrom |-> itf] :
         root \in { ConfigDir, ConfigDir \o << "features" >> }, itf \in BOOLEAN }

\* the files an earlier pass may have left under outputDir, and a file that is
\* not a generated one
OldFiles ==
    { File(ConfigDir \o << ".features-gen", "a.feature" >>, ".spec.js"),
      File(ConfigDir \o << ".features-gen", "old", "gone.feature" >>, ".spec.js"),
      File(ConfigDir \o << ".features-gen", "notes" >>, ".txt") }

\* the subsequences of seq with at most n elements, as sets of indices
Selections(seq, n) == { S \in SUBSET DOMAIN seq : Cardinality(S) <= n }

\* the elements of seq at the indices S, in the order of seq
RECURSIVE Select(_, _, _)
Select(seq, S, i) ==
    IF i > Len(seq) THEN << >>
    ELSE (IF i \in S THEN << seq[i] >> ELSE << >>) \o Select(seq, S, i + 1)

GenInputs ==
    { [config |-> c, features |-> Select(FeatureFiles, S, 1), hasCustomTest |-> h,
       oldFiles |-> old] :
        c \in Configs, S \in Selections(FeatureFiles, MaxFeatures), h \in BOOLEAN,
        old \in SUBSET OldFiles }

(***************************************************************************)
(* TestFilesGenerator: TestFile                                            *)
(***************************************************************************)
RECURSIVE SumSeq(_)
SumSeq(seq) == IF seq = << >> THEN 0 ELSE Head(seq) + SumSeq(Tail(seq))

\* new TestFile({...}).build(): the tests of the pickles the tags expression
\* includes, and their undefined steps
BuildTestFile(doc, library, outputPath) ==
    LET included == SelectSeq(doc.pickles, LAMBDA pk : pk.included)
    IN [uri |-> doc.uri, outputPath |-> outputPath, supportCodeLibrary |-> library,
        testCount |-> Len(included),
        undefinedSteps |-> SumSeq([i \in DOMAIN included |-> included[i].undefinedSteps])]

(***************************************************************************)
(* TestFilesGenerator: generate()                                          *)
(***************************************************************************)
\* a line of the logger or of exit()
Line(msg, path, count) == [msg |-> msg, path |-> path, count |-> count]

\* the steps of generate() after the loads, mutated: the output dir is cleared
\* before the checks
GenerateSteps_ClearBeforeChecks ==
    << "buildFiles", "clearOutputDir", "checkUndefinedSteps", "checkImportTestFrom",
       "saveFiles" >>

\* the steps of generate() after the loads, in the order of the statements
GenerateSteps ==
    << "buildFiles", "checkUndefinedSteps", "checkImportTestFrom", "clearOutputDir",
       "saveFiles" >>

\* the position of generate() after a step has returned
After(step) ==
    LET i == CHOOSE n \in DOMAIN GenerateSteps : GenerateSteps[n] = step
    IN IF i = Len(GenerateSteps) THEN "done" ELSE GenerateSteps[i + 1]

\* exit(...messages): the messages are printed and the pass ends, nothing of
\* generate() runs after it
Exit(lines) ==
    /\ genPc' = "exited"
    /\ logged' = logged \o lines

\* the pass has not ended by exit()
Running == genPc # "exited"

\* generate(): withExitHandler runs the function to `await this.loadCucumberConfig()`
generate ==
    /\ genPc = "idle"
    /\ genPc' = "loadCucumberConfig"
    /\ UNCHANGED << configVars, builderVars, genInput, featuresPc, stepsPc, runConfiguration,
                    featuresLoader, supportCodeLibrary, files, testFiles, disk, logged >>

\* loadCucumberConfig() completes; generate() starts loadFeatures() and loadSteps(),
\* each runs to its first await, and waits for both in Promise.all
loadCucumberConfig ==
    /\ genPc = "loadCucumberConfig"
    /\ runConfiguration' = TRUE
    /\ genPc' = "Promise.all"
    /\ featuresPc' = "resovleFeaturePaths"
    /\ stepsPc' = "loadSteps"
    /\ logged' = logged \o << Line("Loading features from", << >>, 0),
                              Line("Loading steps from", << >>, 0) >>
    /\ UNCHANGED << configVars, builderVars, genInput, featuresLoader, supportCodeLibrary, files,
                    testFiles, disk >>

\* loadFeatures() resumes from `await resovleFeaturePaths(...)` and calls
\* featuresLoader.load(featurePaths, ...)
loadFeaturesResolved ==
    /\ Running
    /\ featuresPc = "resovleFeaturePaths"
    /\ featuresPc' = "featuresLoader.load"
    /\ UNCHANGED << configVars, builderVars, genInput, genPc, stepsPc, runConfiguration,
                    featuresLoader, supportCodeLibrary, files, testFiles, disk, logged >>

\* handleParseErrors, mutated: a single parse error is let through
hasParseErrors_MoreThanOne(parseErrors) == Len(parseErrors) > 1

\* handleParseErrors: `if (parseErrors.length)`
hasParseErrors(parseErrors) == Len(parseErrors) > 0

\* handleParseErrors: one line per parse error
ParseErrorLines(parseErrors) ==
    [i \in DOMAIN parseErrors |-> Line("Parse error in", parseErrors[i].uri, 0)]

\* loadFeatures() resumes from `await this.featuresLoader.load(...)`: the loader
\* holds the documents and the parse errors; handleParseErrors, then the log line
loadFeaturesLoaded ==
    /\ Running
    /\ featuresPc = "featuresLoader.load"
    /\ LET documents == SelectSeq(genInput.features, LAMBDA f : ~f.parseError)
           parseErrors == SelectSeq(genInput.features, LAMBDA f : f.parseError)
       IN /\ featuresLoader' = [documents |-> documents, parseErrors |-> parseErrors]
          /\ IF hasParseErrors(parseErrors)
             THEN /\ Exit(ParseErrorLines(parseErrors))
                  /\ UNCHANGED featuresPc
             ELSE /\ featuresPc' = "done"
                  /\ logged' = Append(logged, Line("Loaded features", << >>, Len(documents)))
                  /\ UNCHANGED genPc
    /\ UNCHANGED << configVars, builderVars, genInput, stepsPc, runConfiguration,
                    supportCodeLibrary, files, testFiles, disk >>

\* loadSteps() resumes from `await loadSteps(...)` and calls loadDecoratorSteps(),
\* which awaits requireOrImport(importTestFrom.file) when importTestFrom is set
loadStepsLoaded ==
    /\ Running
    /\ stepsPc = "loadSteps"
    /\ supportCodeLibrary' = "steps"
    /\ IF genInput.config.importTestFrom
       THEN /\ stepsPc' = "requireOrImport"
            /\ UNCHANGED logged
       ELSE /\ stepsPc' = "done"
            /\ logged' = Append(logged, Line("Loaded steps", << >>, 0))
    /\ UNCHANGED << configVars, builderVars, genInput, genPc, featuresPc, runConfiguration,
                    featuresLoader, files, testFiles, disk >>

\* loadDecoratorSteps() resumes: appendDecoratorSteps(this.supportCodeLibrary)
loadDecoratorSteps ==
    /\ Running
    /\ stepsPc = "requireOrImport"
    /\ supportCodeLibrary' = "steps and decorator steps"
    /\ stepsPc' = "done"
    /\ logged' = Append(logged, Line("Loaded steps", << >>, 0))
    /\ UNCHANGED << configVars, builderVars, genInput, genPc, featuresPc, runConfiguration,
                    featuresLoader, files, testFiles, disk >>

\* generate(), mutated: only loadFeatures() is awaited
PromiseAll_FeaturesOnly(loadFeaturesPc, loadStepsPc) == loadFeaturesPc = "done"

\* generate(): `await Promise.all([this.loadFeatures(), this.loadSteps()])` resolves
\* when both loads have returned
PromiseAll(loadFeaturesPc, loadStepsPc) ==
    loadFeaturesPc = "done" /\ loadStepsPc = "done"

\* generate() resumes from Promise.all
loadsDone ==
    /\ genPc = "Promise.all"
    /\ PromiseAll(featuresPc, stepsPc)
    /\ genPc' = GenerateSteps[1]
    /\ UNCHANGED << configVars, builderVars, genInput, featuresPc, stepsPc, runConfiguration,
                    featuresLoader, supportCodeLibrary, files, testFiles, disk, logged >>

\* buildFiles, mutated: no file is dropped
hasTests_Always(file) == TRUE

\* buildFiles: `.filter((file) => file.testCount > 0)`
hasTests(file) == file.testCount > 0

\* getSpecPathByFeaturePath: the messages of exit() for a feature that is not
\* underneath featuresRoot
OutsideFeaturesRootLines(config, relFeaturePath) ==
    << Line("All feature files should be located underneath featuresRoot", << >>, 0),
       Line("featureFile", PathResolve(ConfigDir, relFeaturePath), 0),
       Line("featuresRoot", config.featuresRoot, 0) >>

\* buildFiles: a TestFile per document with pickles; the first document that is
\* not underneath featuresRoot ends the pass; files without tests are dropped
buildFiles ==
    /\ genPc = "buildFiles"
    /\ LET documents == SelectSeq(featuresLoader.documents, LAMBDA d : Len(d.pickles) > 0)
           outside == SelectSeq(documents,
                                LAMBDA d : OutsideFeaturesRoot(genInput.config, d.uri))
           built == [i \in DOMAIN documents |->
                        BuildTestFile(documents[i], supportCodeLibrary,
                                      SpecPath(genInput.config, documents[i].uri))]
       IN IF outside # << >>
          THEN /\ Exit(OutsideFeaturesRootLines(genInput.config, outside[1].uri))
               /\ UNCHANGED files
          ELSE /\ files' = SelectSeq(built, hasTests)
               /\ genPc' = After("buildFiles")
               /\ UNCHANGED logged
    /\ UNCHANGED << configVars, builderVars, genInput, featuresPc, stepsPc, runConfiguration,
                    featuresLoader, supportCodeLibrary, testFiles, disk >>

\* checkUndefinedSteps, mutated: the count stops at the first file
undefinedSteps_FirstFile(fs) == IF fs = << >> THEN 0 ELSE fs[1].undefinedSteps

\* checkUndefinedSteps: `this.files.reduce((sum, file) => sum + file.undefinedSteps.length, 0)`
undefinedSteps(fs) == SumSeq([i \in DOMAIN fs |-> fs[i].undefinedSteps])

\* checkUndefinedSteps: the undefined steps of this.files are counted; with one or
\* more, the function awaits snippets.print()
checkUndefinedSteps ==
    /\ genPc = "checkUndefinedSteps"
    /\ LET n == undefinedSteps(files)
       IN genPc' = IF n > 0 THEN "snippets.print"
                   ELSE After("checkUndefinedSteps")
    /\ UNCHANGED << configVars, builderVars, genInput, featuresPc, stepsPc, runConfiguration,
                    featuresLoader, supportCodeLibrary, files, testFiles, disk, logged >>

\* checkUndefinedSteps resumes from `await snippets.print()`: exit()
printSnippets ==
    /\ genPc = "snippets.print"
    /\ Exit(<< Line("Missing step definitions",  << >>, undefinedSteps(files)) >>)
    /\ UNCHANGED << configVars, builderVars, genInput, featuresPc, stepsPc, runConfiguration,
                    featuresLoader, supportCodeLibrary, files, testFiles, disk >>

\* checkImportTestFrom
checkImportTestFrom ==
    /\ genPc = "checkImportTestFrom"
    /\ IF genInput.hasCustomTest /\ ~genInput.config.importTestFrom
       THEN Exit(<< Line("When using custom test function in createBdd() you should set importTestFrom",
                         << >>, 0) >>)
       ELSE /\ genPc' = After("checkImportTestFrom")
            /\ UNCHANGED logged
    /\ UNCHANGED << configVars, builderVars, genInput, featuresPc, stepsPc, runConfiguration,
                    featuresLoader, supportCodeLibrary, files, testFiles, disk >>

\* the path is underneath dir
Underneath(dir, path) ==
    Len(path) > Len(dir) /\ SubSeq(path, 1, Len(dir)) = dir

\* clearOutputDir resumes from `await fg(pattern)` with the '**/*.spec.js' files of
\* outputDir and starts an fs.rm per file
clearOutputDir ==
    /\ genPc = "clearOutputDir"
    /\ testFiles' = { f \in disk : /\ Underneath(genInput.config.outputDir, f.path)
                                   /\ f.suffix = ".spec.js" }
    /\ logged' = Append(logged, Line("Clearing output dir", << >>, Cardinality(testFiles')))
    /\ genPc' = "fs.rm"
    /\ UNCHANGED << configVars, builderVars, genInput, featuresPc, stepsPc, runConfiguration,
                    featuresLoader, supportCodeLibrary, files, disk >>

\* one fs.rm(testFile) started by clearOutputDir completes
rm(testFile) ==
    /\ testFile \in testFiles
    /\ testFiles' = testFiles \ {testFile}
    /\ disk' = disk \ {testFile}
    /\ UNCHANGED << configVars, builderVars, genInput, genPc, featuresPc, stepsPc, runConfiguration,
                    featuresLoader, supportCodeLibrary, files, logged >>

\* clearOutputDir, mutated: the removals are started and not awaited
tasksDone_NotAwaited(tasks) == TRUE

\* clearOutputDir: `await Promise.all(tasks)` resolves when every fs.rm has
\* completed
tasksDone(tasks) == tasks = {}

\* clearOutputDir resumes from `await Promise.all(tasks)`
clearOutputDirDone ==
    /\ genPc = "fs.rm"
    /\ tasksDone(testFiles)
    /\ genPc' = After("clearOutputDir")
    /\ UNCHANGED << configVars, builderVars, genInput, featuresPc, stepsPc, runConfiguration,
                    featuresLoader, supportCodeLibrary, files, testFiles, disk, logged >>

\* saveFiles: file.save() and a log line per file, then the total
saveFiles ==
    /\ genPc = "saveFiles"
    /\ disk' = disk \cup { files[i].outputPath : i \in DOMAIN files }
    /\ logged' = logged
                   \o [i \in DOMAIN files |-> Line("Generated", files[i].outputPath.path, 0)]
                   \o << Line("Generated files", << >>, Len(files)) >>
    /\ genPc' = After("saveFiles")
    /\ UNCHANGED << configVars, builderVars, genInput, featuresPc, stepsPc, runConfiguration,
                    featuresLoader, supportCodeLibrary, files, testFiles >>

\* no generation pass: the generator's variables of the reporter's specification
GenIdle ==
    /\ genInput = CHOOSE i \in GenInputs : TRUE
    /\ genPc = "idle"
    /\ featuresPc = "idle"
    /\ stepsPc = "idle"
    /\ runConfiguration = FALSE
    /\ featuresLoader = [documents |-> << >>, parseErrors |-> << >>]
    /\ supportCodeLibrary = "none"
    /\ files = << >>
    /\ testFiles = {}
    /\ disk = {}
    /\ logged = << >>

\* a generation pass on any input, with any old files under outputDir
GenInit ==
    /\ genInput \in GenInputs
    /\ genPc = "idle"
    /\ featuresPc = "idle"
    /\ stepsPc = "idle"
    /\ runConfiguration = FALSE
    /\ featuresLoader = [documents |-> << >>, parseErrors |-> << >>]
    /\ supportCodeLibrary = "none"
    /\ files = << >>
    /\ testFiles = {}
    /\ disk = genInput.oldFiles
    /\ logged = << >>

GenNext ==
    \/ generate
    \/ loadCucumberConfig
    \/ loadFeaturesResolved
    \/ loadFeaturesLoaded
    \/ loadStepsLoaded
    \/ loadDecoratorSteps
    \/ loadsDone
    \/ buildFiles
    \/ checkUndefinedSteps
    \/ printSnippets
    \/ checkImportTestFrom
    \/ clearOutputDir
    \/ \E testFile \in testFiles : rm(testFile)
    \/ clearOutputDirDone
    \/ saveFiles

(***************************************************************************)
(* BDD config (src/config/index.ts): defineBddConfig in the main process   *)
(* and in a worker process that evaluates the Playwright config again.     *)
(***************************************************************************)
\* number of defineBddConfig() calls
MaxDefines == 3

\* the processes of a test run
Processes == { "main", "worker" }

\* process.env.TEST_WORKER_INDEX of a worker; the variable is not set ("") in the
\* main process
WorkerIndexes == { "0", "1" }

\* outputDir options of the Playwright config of the test projects
OutputDirs == { << ".features-gen", "one" >>, << ".features-gen", "two" >> }

\* importTestFrom options
ImportTestFroms == { << "one", "steps", "fixtures.ts" >> }

\* the arguments of defineBddConfig: an object with any of the options
\* outputDir, importTestFrom and verbose
InputConfigs ==
    { [verbose |-> TRUE] }
      \cup { [outputDir |-> o] : o \in OutputDirs }
      \cup { [outputDir |-> o, importTestFrom |-> i] :
                o \in OutputDirs, i \in ImportTestFroms }

\* defaults
defaults ==
    [outputDir |-> << ".features-gen" >>, verbose |-> FALSE,
     examplesTitleFormat |-> "Example #<_index_>", publishQuiet |-> TRUE,
     quotes |-> "double"]

\* Object.assign({}, target, source)
ObjectAssign(target, source) ==
    [key \in DOMAIN target \cup DOMAIN source |->
        IF key \in DOMAIN source THEN source[key] ELSE target[key]]

\* resolveImportTestFrom: undefined (here a record without a file) when the
\* option is not given
resolveImportTestFrom(configDir, config) ==
    IF "importTestFrom" \in DOMAIN config
    THEN [file |-> PathResolve(configDir, config.importTestFrom)]
    ELSE [file |-> << >>]

\* getConfig
getConfig(inputConfig) ==
    LET config == ObjectAssign(defaults, inputConfig)
        configDir == ConfigDir
    IN ObjectAssign(config,
                    [outputDir |-> PathResolve(configDir, config.outputDir),
                     importTestFrom |-> resolveImportTestFrom(configDir, config)])

\* saveConfigToEnv: the config is stored in the env of the process under its
\* outputDir, the key of the stored configs
saveConfigToEnv(env, config) ==
    [env EXCEPT !.configs =
        { c \in @ : c.outputDir # config.outputDir } \cup { config }]

\* `!process.env.TEST_WORKER_INDEX`, mutated: the index is read as a number
isMainProcess_AsNumber(env) == env.TEST_WORKER_INDEX \in { "", "0" }

\* `!process.env.TEST_WORKER_INDEX`
isMainProcess(env) == env.TEST_WORKER_INDEX = ""

\* the host starts a worker process: it inherits the env of the main process, with
\* TEST_WORKER_INDEX set
startWorker(index) ==
    /\ "worker" \notin DOMAIN processEnv
    /\ processEnv' =
         [p \in Processes |->
            IF p = "main" THEN processEnv["main"]
            ELSE [processEnv["main"] EXCEPT !.TEST_WORKER_INDEX = index]]
    /\ UNCHANGED << builderVars, genVars, returned >>

\* defineBddConfig(inputConfig) in a process that evaluates the Playwright config
defineBddConfig(process, inputConfig) ==
    /\ process \in DOMAIN processEnv
    /\ Len(returned) < MaxDefines
    /\ LET config == getConfig(inputConfig)
       IN /\ processEnv' =
               IF isMainProcess(processEnv[process])
               THEN [processEnv EXCEPT ![process] = saveConfigToEnv(@, config)]
               ELSE processEnv
          /\ returned' = Append(returned, [process |-> process,
                                           inputConfig |-> inputConfig,
                                           outputDir |-> config.outputDir])
    /\ UNCHANGED << builderVars, genVars >>

\* no config is defined yet, no worker is started
ConfigInit ==
    /\ processEnv = [p \in { "main" } |-> [TEST_WORKER_INDEX |-> "", configs |-> {}]]
    /\ returned = << >>

ConfigNext ==
    \/ \E index \in WorkerIndexes : startWorker(index)
    \/ \E process \in Processes, inputConfig \in InputConfigs :
          defineBddConfig(process, inputConfig)

(***************************************************************************)
(* The reporter: the host delivers events, reporters build and emit.       *)
(***************************************************************************)
BuilderInit ==
    /\ delivered = << >>
    /\ onEndCalled = FALSE
    /\ report = EmptyReport
    /\ fullResult = NoFullResult
    /\ testCaseRuns = << >>
    /\ testCases = << >>
    /\ hooks = << >>
    /\ gherkinDocuments = << >>
    /\ fullResultTiming = NoTiming
    /\ onEndResolved = FALSE
    /\ buildMessagesPromise = 0
    /\ doBuilds = << >>
    /\ calls = << >>
    /\ collected = << >>
    /\ emitted = << >>

Init == BuilderInit /\ GenIdle /\ ConfigInit

Next ==
    \/ \E t \in TestIds, retry \in 0..MaxRetry, result \in TestResults :
          onTestEnd(t, retry, result)
    \/ \E fr \in FullResults : onEnd(fr)
    \/ buildMessages
    \/ \E k \in DOMAIN doBuilds : doBuildLoadFeatures(k)
    \/ \E k \in DOMAIN doBuilds : doBuildAssemble(k)
    \/ emitMessages

Spec == Init /\ [][Next]_vars

\* the step of doBuildAssemble(k), as the position of doBuildMessages k shows it
doBuildAssembled(k) ==
    /\ doBuilds[k] = "loadFeatures"
    /\ doBuilds' = [doBuilds EXCEPT ![k] = "done"]

\* a continuation of doBuildMessages whose promise has resolved is run by the
\* event loop: the resumption after onEndPromise, and the resumption after
\* loadFeatures() once the feature loading has completed (a step of
\* doBuildAssemble, stated on the position it changes)
Fairness ==
    /\ WF_vars(\E k \in DOMAIN doBuilds : doBuildLoadFeatures(k))
    /\ WF_doBuilds(\E k \in DOMAIN doBuilds : doBuildAssembled(k))

SpecLive == Init /\ [][Next]_vars /\ Fairness

\* the generator alone: one generation pass
InitGen == BuilderInit /\ GenInit /\ ConfigInit

SpecGen == InitGen /\ [][GenNext]_vars

\* the config alone: the main process and a worker evaluate the Playwright config
InitConfig == BuilderInit /\ GenIdle /\ ConfigInit

SpecConfig == InitConfig /\ [][ConfigNext]_vars


(***************************************************************************)
(* Properties of the messages builder                                      *)
(***************************************************************************)
\* some doBuildMessages has run to its end
BuildDone == \E k \in DOMAIN doBuilds : doBuilds[k] = "done"

\* no element occurs twice in seq
NoDuplicates(seq) == \A i, j \in DOMAIN seq : seq[i] = seq[j] => i = j

\* number of envelopes of one kind in seq
CountKind(seq, kind) == Cardinality({ i \in DOMAIN seq : seq[i].kind = kind })

\* the delivered events onTestEnd accepts: BDD project, not expected-skipped
AcceptedEvents ==
    { i \in DOMAIN delivered :
        hasBddConfig(delivered[i].id) /\ expectedStatus(delivered[i].id) # "skipped" }

\* C1: buildMessages is idempotent: however many calls are made, before or after
\* onEnd, doBuildMessages runs at most once, every call returns the same promise
\* (of that one build), and no envelope is pushed to the report or emitted to the
\* eventDataCollector twice.
C1_BuildOnce ==
    /\ Len(doBuilds) <= 1
    /\ \A i \in DOMAIN calls : calls[i] = 1 /\ calls[i] = buildMessagesPromise
    /\ NoDuplicates(report.hook)
    /\ NoDuplicates(report.testCase)
    /\ NoDuplicates(report.testCaseRuns)
    /\ NoDuplicates(collected)
    /\ CountKind(collected, "testRunStarted") <= 1
    /\ CountKind(collected, "testRunFinished") <= 1
    /\ BuildDone => collected = Emission(report)

\* C1 witness: every allowed call was made and the one build has finished, with
\* hooks, a test case and runs in the report.
C1_Witness ==
    /\ Len(calls) = MaxCalls
    /\ BuildDone
    /\ report.hook # << >>
    /\ report.testCaseRuns # << >>
    /\ Len(collected) > 4

\* the place of an envelope kind in the fixed order of the report
KindRank(kind) ==
    CASE kind = "meta" -> 1
      [] kind \in {"source", "gherkinDocument"} -> 2
      [] kind = "pickle" -> 3
      [] kind \in {"stepDefinition", "hook"} -> 4
      [] kind = "testRunStarted" -> 5
      [] kind = "testCase" -> 6
      [] kind \in {"testCaseStarted", "testCaseFinished"} -> 7
      [] kind = "testRunFinished" -> 8

\* the envelopes of seq follow the fixed kind order
InKindOrder(seq) ==
    \A i, j \in DOMAIN seq : i < j => KindRank(seq[i].kind) <= KindRank(seq[j].kind)

\* C2: what emitMessages emits after a build follows the fixed kind order: meta
\* first, sources and documents, pickles, step definitions and hooks, one
\* testRunStarted, one testCase per test case, the run-attempt envelopes, one
\* testRunFinished last; whatever the arrival order of the onTestEnd events.
C2_KindOrder ==
    \A seq \in {emitted, collected} :
        seq # << >> =>
            /\ InKindOrder(seq)
            /\ seq[1].kind = "meta"
            /\ CountKind(seq, "meta") = 1
            /\ CountKind(seq, "testRunStarted") = 1
            /\ CountKind(seq, "testCase") = Len(testCases)
            /\ CountKind(seq, "testRunFinished") = 1
            /\ seq[Len(seq)].kind = "testRunFinished"

\* C2 witness: an emission with two test cases, hooks and runs.
C2_Witness ==
    /\ emitted # << >>
    /\ Len(testCases) = 2
    /\ CountKind(emitted, "hook") = 2
    /\ CountKind(emitted, "testCaseStarted") = 2

\* C3: with at least one accepted onTestEnd event, the envelopes emitted after the
\* build hold exactly one testRunStarted and one testRunFinished, testRunStarted
\* is before every testCase envelope and testRunFinished is the last envelope.
C3_RunStartedFinished ==
    testCaseRuns # << >> =>
        /\ BuildDone => collected # << >>
        /\ \A seq \in {emitted, collected} :
            seq # << >> =>
                /\ CountKind(seq, "testRunStarted") = 1
                /\ CountKind(seq, "testRunFinished") = 1
                /\ \A i, j \in DOMAIN seq :
                    seq[i].kind = "testRunStarted" /\ seq[j].kind = "testCase" => i < j
                /\ \A i \in DOMAIN seq :
                    seq[i].kind = "testRunFinished" <=> i = Len(seq)

\* C3 witness: an emission for a run with one accepted event.
C3_Witness ==
    /\ Len(testCaseRuns) = 1
    /\ emitted # << >>
    /\ CountKind(emitted, "testCase") = 1

\* C4: after createTestCases there is one TestCase per test id among the accepted
\* events, it owns exactly the runs of that id, every run is attached to exactly
\* one TestCase, and as many runs are attached as events were accepted.
C4_Grouping ==
    BuildDone =>
        /\ Len(testCases) = Cardinality({ delivered[i].id : i \in AcceptedEvents })
        /\ \A r \in DOMAIN testCaseRuns :
            /\ testCaseRuns[r].testCase = testCaseRuns[r].id
            /\ Cardinality({ c \in DOMAIN testCases :
                               \E n \in DOMAIN testCases[c].runs :
                                   testCases[c].runs[n] = r }) = 1
        /\ \A c \in DOMAIN testCases :
            /\ NoDuplicates(testCases[c].runs)
            /\ Range(testCases[c].runs) =
                 { r \in DOMAIN testCaseRuns : testCaseRuns[r].id = testCases[c].id }
            /\ Len(testCases[c].runs) =
                 Cardinality({ i \in AcceptedEvents : delivered[i].id = testCases[c].id })
        /\ Len(testCaseRuns) = Cardinality(AcceptedEvents)

\* C4 witness: a test case that owns two attempts.
C4_Witness ==
    /\ BuildDone
    /\ \E c \in DOMAIN testCases : Len(testCases[c].runs) = 2


\* the accepted events in arrival order, as (id, retry) pairs
RECURSIVE AcceptedInOrder(_)
AcceptedInOrder(events) ==
    IF events = << >> THEN << >>
    ELSE LET e == Head(events)
         IN (IF hasBddConfig(e.id) /\ expectedStatus(e.id) # "skipped"
             THEN << e >> ELSE << >>) \o AcceptedInOrder(Tail(events))

\* the (id, retry) pairs of a sequence of runs
AttemptsOfRuns(runs) ==
    [i \in DOMAIN runs |-> [id |-> runs[i].id, retry |-> runs[i].retry]]

\* the (id, retry) pairs of a sequence of envelopes of runs
AttemptsOfEnvelopes(seq) ==
    [i \in DOMAIN seq |-> [id |-> seq[i].ref, retry |-> seq[i].attempt]]

\* the envelopes of one kind, in order
OfKind(seq, kind) == SelectSeq(seq, LAMBDA e : e.kind = kind)

\* the events of one test, in order
OfTest(events, t) == SelectSeq(events, LAMBDA e : e.id = t)

\* C5 as stated: within one test the runs of the TestCase, and the run-attempt
\* envelopes, are in the order of the attempt ordinal, for every delivery order of
\* the onTestEnd events.
C5_OrderedByOrdinal ==
    BuildDone =>
        /\ \A c \in DOMAIN testCases :
            \A i, j \in DOMAIN testCases[c].runs :
                i < j => testCaseRuns[testCases[c].runs[i]].retry
                           < testCaseRuns[testCases[c].runs[j]].retry
        /\ LET started == OfKind(report.testCaseRuns, "testCaseStarted")
           IN \A i, j \in DOMAIN started :
                i < j /\ started[i].ref = started[j].ref
                    => started[i].attempt < started[j].attempt

\* C5 amended: the runs of a TestCase and the run-attempt envelopes are in the
\* arrival order of the test's onTestEnd events; they are in the order of the
\* attempt ordinal exactly when the host delivered the attempts of the test in
\* that order.
C5_OrderedByArrival ==
    /\ AttemptsOfRuns(testCaseRuns) = AcceptedInOrder(delivered)
    /\ BuildDone =>
        /\ \A c \in DOMAIN testCases :
            AttemptsOfRuns([i \in DOMAIN testCases[c].runs |->
                               testCaseRuns[testCases[c].runs[i]]])
              = OfTest(AcceptedInOrder(delivered), testCases[c].id)
        /\ AttemptsOfEnvelopes(OfKind(report.testCaseRuns, "testCaseStarted"))
              = AcceptedInOrder(delivered)
        /\ AttemptsOfEnvelopes(OfKind(report.testCaseRuns, "testCaseFinished"))
              = AcceptedInOrder(delivered)

\* C5 witness: a later attempt of a test was delivered before an earlier one, and
\* the build has finished.
C5_Witness ==
    /\ BuildDone
    /\ \E i, j \in AcceptedEvents :
        /\ i < j
        /\ delivered[i].id = delivered[j].id
        /\ delivered[i].retry > delivered[j].retry

\* the step changes the runs by appending one run of test t, and nothing else
AppendsOneRun(t) ==
    /\ Len(testCaseRuns') = Len(testCaseRuns) + 1
    /\ SubSeq(testCaseRuns', 1, Len(testCaseRuns)) = testCaseRuns
    /\ testCaseRuns'[Len(testCaseRuns')].id = t

\* C6 (the event): onTestEnd appends exactly one TestCaseRun when the test is of a
\* BDD project and not expected-skipped, and leaves the runs unchanged otherwise.
C6_OnTestEndStep ==
    delivered' # delivered =>
        LET t == delivered'[Len(delivered')].id
        IN IF hasBddConfig(t) /\ expectedStatus(t) # "skipped"
           THEN AppendsOneRun(t)
           ELSE testCaseRuns' = testCaseRuns

\* C6 (the result): an expected-skipped test has no run, no TestCase and no
\* testCase or run-attempt envelope.
C6_NothingForSkipped ==
    \A t \in TestIds :
        expectedStatus(t) = "skipped" =>
            /\ \A r \in DOMAIN testCaseRuns : testCaseRuns[r].id # t
            /\ \A c \in DOMAIN testCases : testCases[c].id # t
            /\ \A seq \in {report.testCase, report.testCaseRuns, report.pickle} :
                \A i \in DOMAIN seq : seq[i].ref # t

\* C6: an expected-skipped execution is excluded from the aggregation: onTestEnd
\* appends one run for a BDD test that is not expected-skipped and none otherwise,
\* and nothing of the report belongs to an expected-skipped test.
C6_SkippedExcluded == [][C6_OnTestEndStep]_vars /\ []C6_NothingForSkipped

\* C6 witness: an expected-skipped test and an executed test have ended, and the
\* build has finished with the one run.
C6_Witness ==
    /\ BuildDone
    /\ \E i \in DOMAIN delivered : expectedStatus(delivered[i].id) = "skipped"
    /\ Len(testCaseRuns) = 1
    /\ Len(report.testCase) = 1

\* C7: testRunFinished.success is (fullResult.status === 'passed') of the host's
\* verdict, whatever the statuses of the attempts.
C7_SuccessIsHostVerdict ==
    report.testRunFinished # Null =>
        report.testRunFinished.success = (fullResult.status = "passed")

\* C7 witness: attempts failed then passed of one test, host verdict passed,
\* success is true.
C7_Witness ==
    /\ report.testRunFinished # Null
    /\ report.testRunFinished.success
    /\ Len(testCaseRuns) = 2
    /\ testCaseRuns[1].id = testCaseRuns[2].id
    /\ testCaseRuns[1].status = "failed"
    /\ testCaseRuns[2].status = "passed"

\* a timestamp is not after another one
TimestampLeq(a, b) ==
    \/ a.seconds < b.seconds
    \/ a.seconds = b.seconds /\ a.nanos <= b.nanos

\* C8: the testRunFinished timestamp is start + duration of the memoized timing
\* that gave the testRunStarted timestamp, and is never before testRunStarted.
C8_FinishedAfterStarted ==
    report.testRunFinished # Null =>
        /\ fullResultTiming # NoTiming
        /\ report.testRunStarted # Null
        /\ report.testRunStarted.timestamp
             = toCucumberTimestamp(fullResultTiming.startTime)
        /\ report.testRunFinished.timestamp
             = toCucumberTimestamp(fullResultTiming.startTime + fullResultTiming.duration)
        /\ TimestampLeq(report.testRunStarted.timestamp,
                        report.testRunFinished.timestamp)

\* C8 witness: timing computed from two attempts, the run ends in a later second
\* than it starts.
C8_Witness ==
    /\ report.testRunFinished # Null
    /\ fullResult.startTime = Absent
    /\ Len(testCaseRuns) = 2
    /\ report.testRunStarted.timestamp.seconds
         < report.testRunFinished.timestamp.seconds
    /\ report.testRunStarted.timestamp.nanos
         > report.testRunFinished.timestamp.nanos

\* the host's full result holds both startTime and duration
HostTiming == fullResult.startTime # Absent /\ fullResult.duration # Absent

\* C9: without startTime and duration in the host's full result, testRunStarted
\* is the earliest start of the accepted attempts, so no run-attempt envelope is
\* before it; with both, the host's values are used unchanged.
C9_StartIsEarliest ==
    report.testRunFinished # Null =>
        /\ ~HostTiming /\ testCaseRuns # << >> =>
            /\ \E r \in DOMAIN testCaseRuns :
                fullResultTiming.startTime = testCaseRuns[r].startTime
            /\ \A r \in DOMAIN testCaseRuns :
                fullResultTiming.startTime <= testCaseRuns[r].startTime
            /\ report.testRunStarted.timestamp
                 = toCucumberTimestamp(fullResultTiming.startTime)
            /\ \A i \in DOMAIN report.testCaseRuns :
                TimestampLeq(report.testRunStarted.timestamp,
                             report.testCaseRuns[i].timestamp)
        /\ HostTiming =>
            /\ fullResultTiming
                 = [startTime |-> fullResult.startTime, duration |-> fullResult.duration]
            /\ report.testRunStarted.timestamp
                 = toCucumberTimestamp(fullResult.startTime)
            /\ report.testRunFinished.timestamp
                 = toCucumberTimestamp(fullResult.startTime + fullResult.duration)

\* C9 witness: no host timing, and the attempt that started first arrived second.
C9_Witness ==
    /\ report.testRunFinished # Null
    /\ ~HostTiming
    /\ Len(testCaseRuns) = 2
    /\ testCaseRuns[2].startTime < testCaseRuns[1].startTime
    /\ report.testRunStarted.timestamp = toCucumberTimestamp(testCaseRuns[2].startTime)



(***************************************************************************)
(* Properties of the test files generator                                  *)
(***************************************************************************)
\* the documents buildFiles builds a file for
DocumentsOfInput ==
    SelectSeq(genInput.features, LAMBDA f : ~f.parseError /\ Len(f.pickles) > 0)

\* the input has a parse error
HasParseError == \E i \in DOMAIN genInput.features : genInput.features[i].parseError

\* a feature of the input is not underneath featuresRoot, by the test of
\* getSpecPathByFeaturePath
HasFeatureOutsideRoot ==
    \E i \in DOMAIN DocumentsOfInput :
        StartsWithDotDot(PathRelative(genInput.config.featuresRoot,
                                      PathResolve(ConfigDir, DocumentsOfInput[i].uri)))

\* a step of a test of the input has no definition
HasUndefinedStep ==
    \E i \in DOMAIN DocumentsOfInput :
        \E n \in DOMAIN DocumentsOfInput[i].pickles :
            /\ DocumentsOfInput[i].pickles[n].included
            /\ DocumentsOfInput[i].pickles[n].undefinedSteps > 0

\* a custom test function without the importTestFrom option
LacksImportTestFrom == genInput.hasCustomTest /\ ~genInput.config.importTestFrom

\* the input has a fatal error
FatalInput ==
    HasParseError \/ HasFeatureOutsideRoot \/ HasUndefinedStep \/ LacksImportTestFrom

\* the lines exit() prints for a fatal error
ErrorLines ==
    { "Parse error in", "All feature files should be located underneath featuresRoot",
      "Missing step definitions",
      "When using custom test function in createBdd() you should set importTestFrom" }

\* exit() has printed an error
ErrorReported == \E i \in DOMAIN logged : logged[i].msg \in ErrorLines

\* C10: a fatal error (parse error, feature outside featuresRoot, undefined step,
\* custom test without importTestFrom) ends the pass before any change of the
\* file system: neither clearOutputDir nor saveFiles runs, the output directory
\* is as it was found; the output is cleared only after every check has passed.
C10_FatalErrorBeforeMutation ==
    /\ FatalInput =>
        /\ disk = genInput.oldFiles
        /\ testFiles = {}
        /\ genPc \notin {"clearOutputDir", "fs.rm", "saveFiles", "done"}
    /\ (genPc = "exited" \/ ErrorReported) =>
        /\ FatalInput
        /\ genPc = "exited"
        /\ ErrorReported
        /\ disk = genInput.oldFiles
    /\ genPc \in {"clearOutputDir", "fs.rm", "saveFiles", "done"} =>
        /\ ~FatalInput
        /\ ~ErrorReported

\* C10 witness: the pass has ended on undefined steps, the generated files of an
\* earlier pass are still there.
C10_Witness ==
    /\ genPc = "exited"
    /\ \E i \in DOMAIN logged : logged[i].msg = "Missing step definitions"
    /\ \E f \in disk : f.suffix = ".spec.js"
    /\ disk = genInput.oldFiles

\* the documents of the input with a test, in the order of the loader
DocumentsWithTests ==
    SelectSeq(DocumentsOfInput,
              LAMBDA d : \E n \in DOMAIN d.pickles : d.pickles[n].included)

\* the undefined steps of the tests of a document
UndefinedStepsOfDocument(doc) ==
    SumSeq([n \in DOMAIN doc.pickles |->
               IF doc.pickles[n].included THEN doc.pickles[n].undefinedSteps ELSE 0])

\* the undefined steps of the tests of all documents of the input
TotalUndefinedSteps ==
    SumSeq([i \in DOMAIN DocumentsOfInput |-> UndefinedStepsOfDocument(DocumentsOfInput[i])])

\* the positions of generate() after checkUndefinedSteps has returned
PastCheckUndefinedSteps ==
    {"checkImportTestFrom", "clearOutputDir", "fs.rm", "saveFiles", "done"}

\* C11: undefined steps are collected over the whole input, not up to the first
\* one: when checkUndefinedSteps runs, buildFiles has assembled the file of every
\* document with a test; the check counts the undefined steps of the tests of all
\* documents; the pass ends there if and only if the total is greater than zero,
\* and the one report it prints carries the whole total.
C11_UndefinedStepsExhaustive ==
    /\ genPc \in {"checkUndefinedSteps", "snippets.print"} =>
        /\ [i \in DOMAIN files |-> files[i].uri]
             = [i \in DOMAIN DocumentsWithTests |-> DocumentsWithTests[i].uri]
        /\ undefinedSteps(files) = TotalUndefinedSteps
    /\ genPc = "snippets.print" => TotalUndefinedSteps > 0
    /\ genPc \in PastCheckUndefinedSteps => TotalUndefinedSteps = 0
    /\ \A i \in DOMAIN logged :
          logged[i].msg = "Missing step definitions" =>
            /\ genPc = "exited"
            /\ logged[i].count = TotalUndefinedSteps
            /\ logged[i].count > 0
            /\ \A j \in DOMAIN logged :
                  logged[j].msg = "Missing step definitions" => j = i

\* C11 witness: the pass has ended on the undefined steps of two documents, the
\* second one's are in the report.
C11_Witness ==
    /\ genPc = "exited"
    /\ Len(files) = 2
    /\ files[1].undefinedSteps > 0
    /\ files[2].undefinedSteps > 0
    /\ \E i \in DOMAIN logged :
          /\ logged[i].msg = "Missing step definitions"
          /\ logged[i].count = files[1].undefinedSteps + files[2].undefinedSteps

\* the undefined steps of all pickles of all documents of the input, the pickles
\* the tags expression excludes among them
TotalUndefinedStepsOfAllPickles ==
    SumSeq([i \in DOMAIN DocumentsOfInput |->
               SumSeq([n \in DOMAIN DocumentsOfInput[i].pickles |->
                          DocumentsOfInput[i].pickles[n].undefinedSteps])])

\* C11 as stated: the check counts the undefined steps of all pickles of all
\* documents, and the pass ends there if and only if that total is greater than
\* zero.
C11_AllPicklesCounted ==
    /\ genPc = "snippets.print" => TotalUndefinedStepsOfAllPickles > 0
    /\ genPc \in PastCheckUndefinedSteps => TotalUndefinedStepsOfAllPickles = 0
    /\ \A i \in DOMAIN logged :
          logged[i].msg = "Missing step definitions" =>
              logged[i].count = TotalUndefinedStepsOfAllPickles

\* the feature file is located underneath featuresRoot
LocatedUnderneathRoot(config, relFeaturePath) ==
    Underneath(config.featuresRoot, PathResolve(ConfigDir, relFeaturePath))

\* a document of the input is not located underneath featuresRoot
HasDocumentOutsideRoot ==
    \E i \in DOMAIN DocumentsOfInput :
        ~LocatedUnderneathRoot(genInput.config, DocumentsOfInput[i].uri)

\* the positions of generate() after buildFiles has returned
PastBuildFiles == {"checkUndefinedSteps", "snippets.print"} \cup PastCheckUndefinedSteps

\* the part of C12 that holds: a feature file outside featuresRoot ends the pass in
\* buildFiles with the error of getSpecPathByFeaturePath, no file is assembled
\* for it, and the error names a feature file of the input and the root
OutsideRootEndsPass ==
    /\ HasDocumentOutsideRoot =>
        /\ genPc \notin PastBuildFiles
        /\ files = << >>
        /\ (genPc = "exited" /\ ~HasParseError) =>
              \E i \in DOMAIN logged : logged[i].msg = "featureFile"
    /\ \A i \in DOMAIN logged :
          logged[i].msg = "featureFile" =>
            /\ i < Len(logged)
            /\ logged[i + 1] = Line("featuresRoot", genInput.config.featuresRoot, 0)
            /\ \E d \in DOMAIN DocumentsOfInput :
                  logged[i].path = PathResolve(ConfigDir, DocumentsOfInput[d].uri)

\* C12: a feature file outside featuresRoot ends the pass with the error of
\* getSpecPathByFeaturePath, which names the feature file and the root; the file
\* is not skipped and gets no output path; conversely the error is never raised
\* for a feature file located underneath featuresRoot.
C12_OutsideRootIsFatal ==
    /\ OutsideRootEndsPass
    /\ \A i \in DOMAIN logged :
          logged[i].msg = "featureFile" =>
              ~Underneath(genInput.config.featuresRoot, logged[i].path)

\* the file name of a path
Basename(path) == path[Len(path)]

\* C13: the output path derivation never collides: two different feature files
\* underneath featuresRoot get different output paths, so the files of a pass
\* have pairwise different paths and saveFiles writes as many files as it counts.
C13_NoCollision ==
    /\ \A i, j \in DOMAIN genInput.features :
          LET f == genInput.features[i].uri
              g == genInput.features[j].uri
          IN (/\ f # g
              /\ ~OutsideFeaturesRoot(genInput.config, f)
              /\ ~OutsideFeaturesRoot(genInput.config, g))
                => SpecPath(genInput.config, f) # SpecPath(genInput.config, g)
    /\ \A i, j \in DOMAIN files :
          i # j => files[i].outputPath # files[j].outputPath
    /\ genPc = "done" =>
          Cardinality({ f \in disk : f.suffix = ".spec.js" }) = Len(files)

\* C13 witness: a pass has saved the files of two features with the same file
\* name in different directories.
C13_Witness ==
    /\ genPc = "done"
    /\ Len(files) = 2
    /\ Basename(files[1].uri) = Basename(files[2].uri)
    /\ { files[1].outputPath, files[2].outputPath } \subseteq disk
    /\ files[1].outputPath # files[2].outputPath

\* the '*.spec.js' files under outputDir among a set of files
SpecFilesUnderOutputDir(fs) ==
    { f \in fs : Underneath(genInput.config.outputDir, f.path) /\ f.suffix = ".spec.js" }

\* the files generated in this pass
GeneratedFiles == { files[i].outputPath : i \in DOMAIN files }

\* C14: every '*.spec.js' file found under outputDir is removed before the pass
\* writes a file: when saveFiles starts, every removal of clearOutputDir has
\* completed and no such file is left; after a successful generate the '*.spec.js'
\* files under outputDir are exactly the files generated in this pass, and no
\* removal is pending that could delete one of them.
C14_ClearedBeforeSave ==
    /\ genPc \in {"saveFiles", "done"} => testFiles = {}
    /\ genPc = "saveFiles" => SpecFilesUnderOutputDir(disk) = {}
    /\ genPc = "done" =>
        /\ SpecFilesUnderOutputDir(disk) = GeneratedFiles
        /\ Cardinality(GeneratedFiles) = Len(files)
    /\ genPc \in {"idle", "loadCucumberConfig", "Promise.all", "buildFiles",
                  "checkUndefinedSteps", "snippets.print", "checkImportTestFrom",
                  "clearOutputDir", "exited"} => disk = genInput.oldFiles

\* C14 witness: a pass has ended; a stale generated file is gone, and a file the
\* pass has generated at the path of an old one is there.
C14_Witness ==
    /\ genPc = "done"
    /\ \E f \in SpecFilesUnderOutputDir(genInput.oldFiles) : f \notin disk
    /\ \E f \in SpecFilesUnderOutputDir(genInput.oldFiles) :
          f \in GeneratedFiles /\ f \in disk

\* the documents of the input all of whose pickles the tags expression excludes
DocumentsWithoutTests ==
    SelectSeq(DocumentsOfInput,
              LAMBDA d : \A n \in DOMAIN d.pickles : ~d.pickles[n].included)

\* C15: a document all of whose pickles fail the tags expression (testCount = 0)
\* is dropped by buildFiles: it has no entry in this.files, no file is written
\* and no 'Generated' line printed for it, and the 'Generated files' total counts
\* only the documents with a test.
C15_TagFilteredDropped ==
    /\ \A i \in DOMAIN files : files[i].testCount > 0
    /\ \A d \in DOMAIN DocumentsWithoutTests :
          LET outputPath == SpecPath(genInput.config, DocumentsWithoutTests[d].uri)
          IN /\ \A i \in DOMAIN files :
                   /\ files[i].uri # DocumentsWithoutTests[d].uri
                   /\ files[i].outputPath # outputPath
             /\ genPc = "done" => outputPath \notin disk
             /\ \A i \in DOMAIN logged :
                   logged[i].msg = "Generated" => logged[i].path # outputPath.path
    /\ \A i \in DOMAIN logged :
          logged[i].msg = "Generated files" =>
              logged[i].count = Len(DocumentsWithTests)

\* C15 witness: a pass over a document without tests and a document with a test
\* has ended and reports one generated file.
C15_Witness ==
    /\ genPc = "done"
    /\ Len(DocumentsWithoutTests) = 1
    /\ Len(DocumentsOfInput) = 2
    /\ \E i \in DOMAIN logged :
          logged[i].msg = "Generated files" /\ logged[i].count = 1
    /\ Cardinality(SpecFilesUnderOutputDir(disk)) = 1

\* the features of the input with a parse error, in the order of the loader
ParseErrorsOfInput == SelectSeq(genInput.features, LAMBDA f : f.parseError)

\* the 'Parse error in' lines exit() has printed
ParseErrorLinesLogged == SelectSeq(logged, LAMBDA l : l.msg = "Parse error in")

\* C16: when the loader returns parse errors, the pass ends with one
\* 'Parse error in "<uri>"' line per parse error and assembly is never attempted:
\* neither buildFiles nor a later phase runs, whether or not the concurrent
\* loadSteps has returned.
C16_ParseErrorsAbort ==
    /\ HasParseError =>
        /\ genPc \notin ({"buildFiles"} \cup PastBuildFiles)
        /\ files = << >>
        /\ featuresPc # "done"
    /\ featuresLoader.parseErrors # << >> =>
        /\ genPc = "exited"
        /\ ParseErrorLinesLogged
             = [i \in DOMAIN ParseErrorsOfInput |->
                   Line("Parse error in", ParseErrorsOfInput[i].uri, 0)]
    /\ ParseErrorLinesLogged # << >> => featuresLoader.parseErrors # << >>

\* C16 witness: the pass has ended on two parse errors, with a line for each,
\* while loadSteps had not returned.
C16_Witness ==
    /\ genPc = "exited"
    /\ Len(featuresLoader.parseErrors) = 2
    /\ Len(ParseErrorLinesLogged) = 2
    /\ ParseErrorLinesLogged[1].path # ParseErrorLinesLogged[2].path
    /\ stepsPc # "done"

\* the pass has ended on a parse error after loadSteps had returned
ParseErrorAfterLoadSteps ==
    /\ genPc = "exited"
    /\ ParseErrorLinesLogged # << >>
    /\ stepsPc = "done"

\* the registry after loadSteps() and loadDecoratorSteps() have completed
LoadedLibrary ==
    IF genInput.config.importTestFrom THEN "steps and decorator steps" ELSE "steps"

\* the position of the first line with the message in the log, 0 if none
LoggedAt(msg) ==
    IF \E i \in DOMAIN logged : logged[i].msg = msg
    THEN CHOOSE i \in DOMAIN logged :
            /\ logged[i].msg = msg
            /\ \A j \in 1..(i - 1) : logged[j].msg # msg
    ELSE 0

\* C18: assembly never observes a partially loaded registry: buildFiles starts
\* only after loadCucumberConfig, loadFeatures and loadSteps with the decorator
\* steps have completed, in either completion order of the two loads, and every
\* file is assembled against the whole registry.
C18_AssemblyAfterLoads ==
    /\ genPc \in ({"buildFiles"} \cup PastBuildFiles) =>
        /\ runConfiguration
        /\ featuresPc = "done"
        /\ stepsPc = "done"
        /\ supportCodeLibrary = LoadedLibrary
        /\ featuresLoader.documents
             = SelectSeq(genInput.features, LAMBDA f : ~f.parseError)
    /\ \A i \in DOMAIN files : files[i].supportCodeLibrary = LoadedLibrary

\* C18 witness: loadFeatures completed first, the decorator steps were loaded
\* after it, and the files are assembled against the whole registry.
C18_Witness ==
    /\ genPc = "done"
    /\ genInput.config.importTestFrom
    /\ LoggedAt("Loaded features") < LoggedAt("Loaded steps")
    /\ Len(files) > 0
    /\ files[1].supportCodeLibrary = "steps and decorator steps"

\* the other completion order: loadSteps completed before loadFeatures
StepsLoadedFirst ==
    /\ genPc = "done"
    /\ Len(files) > 0
    /\ LoggedAt("Loaded steps") < LoggedAt("Loaded features")

\* a doBuildMessages has passed `await this.onEndPromise`
PastOnEndWait == \E k \in DOMAIN doBuilds : doBuilds[k] \in {"loadFeatures", "done"}

\* the runs attached to the test cases, as indices of testCaseRuns
RunsOfTestCases ==
    UNION { Range(testCases[c].runs) : c \in DOMAIN testCases }

AllCallsCompleted ==
    \A i \in DOMAIN calls : doBuilds[calls[i]] = "done"

\* C19: no envelope is built before the host's onEnd: until onEnd every
\* doBuildMessages is pending on onEndPromise, the report is empty and
\* emitMessages emits nothing; a build has completed only if onEnd was delivered;
\* and once onEnd has been delivered, every pending and every later buildMessages
\* call eventually completes, the feature loading completing.
C19_BuildWaitsForOnEnd ==
    /\ [](~onEndCalled =>
            /\ \A k \in DOMAIN doBuilds : doBuilds[k] = "awaitOnEnd"
            /\ report = EmptyReport
            /\ Emission(report) = << >>
            /\ collected = << >>
            /\ emitted = << >>)
    /\ [](BuildDone => onEndCalled)
    /\ [](onEndCalled => <>[]AllCallsCompleted)

\* C19 witness: two buildMessages calls were made before onEnd, with runs
\* collected; the one doBuildMessages is pending and the report is empty.
C19_Witness ==
    /\ ~onEndCalled
    /\ Len(calls) = 2
    /\ Len(doBuilds) = 1
    /\ doBuilds[1] = "awaitOnEnd"
    /\ testCaseRuns # << >>
    /\ report = EmptyReport

\* a buildMessages call made before onEnd has completed after it
PendingCallCompleted ==
    /\ onEndCalled
    /\ Len(calls) = 2
    /\ Len(delivered) = 0
    /\ AllCallsCompleted

\* the step is a defineBddConfig() call of the process
DefinedIn(process) ==
    /\ Len(returned') = Len(returned) + 1
    /\ returned'[Len(returned')].process = process

\* C20: the re-evaluation of the Playwright config in a worker is handled: a
\* defineBddConfig call in a process with TEST_WORKER_INDEX set writes nothing to
\* the configs stored in the env (what the main process saved stays as it is) and
\* returns the same resolved absolute outputDir as the call in the main process
\* with the same input; only the calls in the main process store the config.
C20_WorkerReEvaluation ==
    /\ [][DefinedIn("worker") => processEnv' = processEnv]_vars
    /\ [][DefinedIn("main") =>
            /\ getConfig(returned'[Len(returned')].inputConfig)
                 \in processEnv'["main"].configs
            /\ "worker" \in DOMAIN processEnv =>
                  processEnv'["worker"] = processEnv["worker"]]_vars
    /\ [](\A i, j \in DOMAIN returned :
            returned[i].inputConfig = returned[j].inputConfig =>
                returned[i].outputDir = returned[j].outputDir)
    /\ [](\A i \in DOMAIN returned :
            /\ Underneath(ConfigDir, returned[i].outputDir)
            /\ returned[i].outputDir = getConfig(returned[i].inputConfig).outputDir)
    /\ [](\A p \in DOMAIN processEnv : \A c \in processEnv[p].configs :
            \E i \in DOMAIN returned :
                /\ returned[i].process = "main"
                /\ getConfig(returned[i].inputConfig) = c)

\* C20 witness: the worker with index 0 has evaluated the config the main process
\* had defined, got the same outputDir, and the stored configs are the ones of
\* the main process.
C20_Witness ==
    /\ "worker" \in DOMAIN processEnv
    /\ processEnv["worker"].TEST_WORKER_INDEX = "0"
    /\ Len(returned) = 2
    /\ returned[1].process = "main"
    /\ returned[2].process = "worker"
    /\ returned[1].inputConfig = returned[2].inputConfig
    /\ returned[1].outputDir = returned[2].outputDir
    /\ processEnv["main"].configs = { getConfig(returned[1].inputConfig) }
    /\ processEnv["worker"].configs = processEnv["main"].configs

\* a worker has evaluated a config the main process has not defined
WorkerDefinesOther ==
    /\ Len(returned) = 2
    /\ returned[1].process = "main"
    /\ returned[2].process = "worker"
    /\ returned[1].outputDir # returned[2].outputDir

====
